---- MODULE Spec2Model ----
(***************************************************************************)
(* State-machine model of app.py: the data-preparation pipeline            *)
(* (safe_read_csv, to_datetime_safe, ensure_col, load_data) followed by    *)
(* the four tab renderers, which run in order as module-level code.        *)
(*                                                                         *)
(* A table (pandas DataFrame) is a record                                  *)
(*     [cols |-> set of column names, rows |-> sequence of rows]           *)
(* where every row is a function from cols to cell values.  Cell values    *)
(* are typed per column:                                                   *)
(*   - identifier / text columns hold strings, NaStr for a missing cell;   *)
(*   - date columns hold records [shape, t]: shape is the strftime format  *)
(*     the raw text is written in, "other" (text only the generic parser   *)
(*     reads), "bad" (text no parser reads), "nan" (empty cell),           *)
(*     "datetime" (a parsed datetime64 at instant t) or "NaT";             *)
(*   - numeric columns hold records [k, v]: k is "num" (number v),         *)
(*     "str" (text that is not a number) or "nan" (missing).               *)
(***************************************************************************)
EXTENDS Integers, Sequences, FiniteSets, TLC

VARIABLES
    disk,          \* path -> [state, table]: the six CSV files
    pc,            \* position in the script
    err,           \* the exception that ended the script, "" when none
    df_payments, df_products, df_customers, df_sellers, df_orders, df_lifecycle,
    df_enriched,
    metrics,       \* scalar metrics the renderers have displayed so far
    arg,           \* argument record of a function applied on its own
    ret,           \* sequence of results of that function
    read_cache,    \* st.cache_data of safe_read_csv: path -> <<>> or <<table>>
    data_cache,    \* st.cache_data of load_data: <<>> or <<the returned dict>>
    reads,         \* path -> number of times pd.read_csv has opened it
    computed,      \* number of times the body of load_data has returned
    runs           \* number of times the script has been started

cachevars == <<read_cache, data_cache, reads, computed, runs>>

vars == <<disk, pc, err, df_payments, df_products, df_customers, df_sellers,
          df_orders, df_lifecycle, df_enriched, metrics, arg, ret, cachevars>>

dfs == <<df_payments, df_products, df_customers, df_sellers, df_orders,
         df_lifecycle, df_enriched>>

-----------------------------------------------------------------------------
(* Cell values *)

NaStr == "NaN"

NaT == [shape |-> "NaT", t |-> 0]

DT(t) == [shape |-> "datetime", t |-> t]

RawTs(shape, t) == [shape |-> shape, t |-> t]

NanTs == [shape |-> "nan", t |-> 0]

BadTs == [shape |-> "bad", t |-> 0]

IsNaT(v) == v.shape # "datetime"

Num(n) == [k |-> "num", v |-> n]

NaNum == [k |-> "nan", v |-> 0]

StrNum == [k |-> "str", v |-> 0]

-----------------------------------------------------------------------------
(* Tables *)

EmptyDF == [cols |-> {}, rows |-> <<>>]

\* DataFrame.empty: some axis has length 0
IsEmpty(df) == df.cols = {} \/ Len(df.rows) = 0

Column(df, c) == [i \in 1..Len(df.rows) |-> df.rows[i][c]]

\* df[c] = values (one value per row)
SetColumn(df, c, values) ==
    [cols |-> df.cols \cup {c},
     rows |-> [i \in 1..Len(df.rows) |->
                 [x \in df.cols \cup {c} |->
                     IF x = c THEN values[i] ELSE df.rows[i][x]]]]

\* df[c] = scalar (broadcast)
SetScalar(df, c, value) ==
    SetColumn(df, c, [i \in 1..Len(df.rows) |-> value])

\* df[cols]
Project(df, cs) ==
    [cols |-> cs, rows |-> [i \in 1..Len(df.rows) |-> [x \in cs |-> df.rows[i][x]]]]

Restrict(row, cs) == [x \in cs |-> row[x]]

SeqsUpTo(S, n) == UNION {[1..k -> S] : k \in 1..n}

Min(S) == CHOOSE x \in S : \A y \in S : x <= y

-----------------------------------------------------------------------------
(* safe_read_csv *)

Absent == [state |-> "absent", table |-> EmptyDF]

Garbled == [state |-> "garbled", table |-> EmptyDF]

File(table) == [state |-> "ok", table |-> table]

\* A variant that handles only FileNotFoundError.
SafeReadCsvNoCatchAll(file) ==
    IF file.state = "ok" THEN [raised |-> FALSE, df |-> file.table]
    ELSE IF file.state = "absent" THEN [raised |-> FALSE, df |-> EmptyDF]
    ELSE [raised |-> TRUE, df |-> EmptyDF]

\* pd.read_csv raises FileNotFoundError on an absent file and a parser error
\* (EmptyDataError, ParserError, UnicodeDecodeError) on a file it cannot read;
\* both handlers return an empty DataFrame.
SafeReadCsv(file) ==
    IF file.state = "ok" THEN [raised |-> FALSE, df |-> file.table]
    ELSE IF file.state = "absent" THEN [raised |-> FALSE, df |-> EmptyDF]
    ELSE [raised |-> FALSE, df |-> EmptyDF]

-----------------------------------------------------------------------------
(* to_datetime_safe *)

F1 == "%Y-%m-%d %H:%M:%S"

F2 == "%Y-%m-%d %H:%M"

F3 == "%d-%m-%Y %H:%M"

F4 == "%d/%m/%Y %H:%M:%S"

F5 == "%d/%m/%Y %H:%M"

DefaultFormats == <<F1, F2, F3, F4, F5>>

\* pd.to_datetime(value, format=fmt, errors="coerce") on one cell: the text
\* must be written in exactly that format; a datetime passes through.
ParseFmt(v, fmt) ==
    IF v.shape = "datetime" THEN v
    ELSE IF v.shape = fmt THEN DT(v.t)
    ELSE NaT

\* pd.to_datetime(value, errors="coerce") on one cell, no format given
ParseGeneric(v) ==
    IF v.shape \in {"bad", "nan", "NaT"} THEN NaT ELSE DT(v.t)

ParseColumn(series, fmt) == [i \in 1..Len(series) |-> ParseFmt(series[i], fmt)]

ParseColumnGeneric(series) == [i \in 1..Len(series) |-> ParseGeneric(series[i])]

AnyNotNa(parsed) == \E i \in 1..Len(parsed) : ~IsNaT(parsed[i])

\* the loop "for fmt in formats", from the k-th format on
RECURSIVE TryFormats(_, _, _)
TryFormats(series, formats, k) ==
    IF k > Len(formats) THEN ParseColumnGeneric(series)
    ELSE LET parsed == ParseColumn(series, formats[k]) IN
         IF AnyNotNa(parsed) THEN parsed
         ELSE TryFormats(series, formats, k + 1)

\* A variant that lets each cell fall through to the first format reading it.
RECURSIVE CellFallThrough(_, _, _)
CellFallThrough(v, formats, k) ==
    IF k > Len(formats) THEN ParseGeneric(v)
    ELSE IF ~IsNaT(ParseFmt(v, formats[k])) THEN ParseFmt(v, formats[k])
    ELSE CellFallThrough(v, formats, k + 1)

ToDatetimePerCell(series, formats) ==
    [i \in 1..Len(series) |-> CellFallThrough(series[i], formats, 1)]

\* the formats=None default argument
None == <<"None">>

FormatsUsed(formats) == IF formats = None THEN DefaultFormats ELSE formats

ToDatetimeSafe(series, formats) ==
    IF Len(series) = 0 THEN <<>>
    ELSE TryFormats(series, FormatsUsed(formats), 1)

-----------------------------------------------------------------------------
(* ensure_col *)

\* A variant without the "col not in df.columns" test.
EnsureColOverwrite(df, col, default) == SetScalar(df, col, default)

EnsureCol(df, col, default) ==
    IF col \notin df.cols THEN SetScalar(df, col, default) ELSE df

-----------------------------------------------------------------------------
(* pandas operations used by load_data *)

\* processing_time_days and the averages are quotients: [k, num, den]
Frac(n, d) == [k |-> "num", num |-> n, den |-> d]

NaFrac == [k |-> "nan", num |-> 0, den |-> 1]

SecondsPerDay == 24 * 3600

DateCols == <<"order_purchase_timestamp", "order_approved_at",
              "order_delivered_carrier_date", "order_delivered_customer_date",
              "order_estimated_delivery_date">>

TsCols == {DateCols[i] : i \in 1..Len(DateCols)} \cup {"event_timestamp"}

NumCols == {"payment_installments", "payment_value"}

\* the missing value a left join puts in column c of an unmatched row
NaOf(c) ==
    IF c \in TsCols THEN NaT
    ELSE IF c \in NumCols THEN NaNum
    ELSE NaStr

\* lexicographic order of the identifiers and category names the tables hold
IdOrder == <<"", "A", "B", "C", "RJ", "SP", "Unknown", "books", "c1", "c2", "c3", "toys">>

IdRank(s) == CHOOSE k \in 1..Len(IdOrder) : IdOrder[k] = s

RECURSIVE Flatten(_)
Flatten(ss) == IF Len(ss) = 0 THEN <<>> ELSE Head(ss) \o Flatten(Tail(ss))

\* the rows whose index satisfies Keep, in their order
RECURSIVE FilterFrom(_, _, _)
FilterFrom(rows, Keep(_), i) ==
    IF i > Len(rows) THEN <<>>
    ELSE (IF Keep(i) THEN <<rows[i]>> ELSE <<>>) \o FilterFrom(rows, Keep, i + 1)

FilterRows(df, Test(_)) ==
    [cols |-> df.cols, rows |-> FilterFrom(df.rows, LAMBDA i : Test(df.rows[i]), 1)]

\* sort with a stable algorithm: equal rows keep their input order
StableSort(rows, Less(_, _)) ==
    LET n == Len(rows)
        Before(j, i) == Less(rows[j], rows[i]) \/ (~Less(rows[i], rows[j]) /\ j < i)
        Rank(i) == Cardinality({j \in 1..n : j # i /\ Before(j, i)})
    IN  [k \in 1..n |-> rows[CHOOSE i \in 1..n : Rank(i) = k - 1]]

\* every order a sort may leave the rows in when the algorithm is not stable:
\* rows come out in key order, equal keys in any order
SortedOrders(rows, Less(_, _)) ==
    LET n == Len(rows)
        perms == {p \in [1..n -> 1..n] : \A a, b \in 1..n : a # b => p[a] # p[b]}
    IN  {[k \in 1..n |-> rows[p[k]]] :
            p \in {q \in perms : \A a, b \in 1..n : a < b => ~Less(rows[q[b]], rows[q[a]])}}

\* A variant that skips the de-duplication.
KeepDuplicates(df, key) == df

\* A variant that keeps the last row of each key value.
DropDuplicatesKeepLast(df, key) ==
    [cols |-> df.cols,
     rows |-> FilterFrom(df.rows,
                 LAMBDA i : \A j \in (i + 1)..Len(df.rows) : df.rows[j][key] # df.rows[i][key], 1)]

\* DataFrame.drop_duplicates(key): the first row of each key value is kept
DropDuplicates(df, key) ==
    [cols |-> df.cols,
     rows |-> FilterFrom(df.rows,
                 LAMBDA i : \A j \in 1..(i - 1) : df.rows[j][key] # df.rows[i][key], 1)]

\* names merge gives to columns both sides carry
SuffixX(c) ==
    IF c = "customer_city" THEN "customer_city_x"
    ELSE IF c = "customer_state" THEN "customer_state_x"
    ELSE c

SuffixY(c) ==
    IF c = "customer_city" THEN "customer_city_y"
    ELSE IF c = "customer_state" THEN "customer_state_y"
    ELSE c

\* left.merge(right, on=on, how="left")
MergeLeft(left, right, on) ==
    LET rc == right.cols \ {on}
        both == left.cols \cap rc
        NameL(c) == IF c \in both THEN SuffixX(c) ELSE c
        NameR(c) == IF c \in both THEN SuffixY(c) ELSE c
        lcols == {NameL(c) : c \in left.cols}
        cols == lcols \cup {NameR(c) : c \in rc}
        FromL(x) == CHOOSE c \in left.cols : NameL(c) = x
        FromR(x) == CHOOSE c \in rc : NameR(c) = x
        Matches(l) == SelectSeq(right.rows, LAMBDA r : r[on] = l[on])
        Join(l, r) == [x \in cols |-> IF x \in lcols THEN l[FromL(x)] ELSE r[FromR(x)]]
        Miss(l) == [x \in cols |-> IF x \in lcols THEN l[FromL(x)] ELSE NaOf(FromR(x))]
        Expand(l) ==
            LET m == Matches(l) IN
            IF Len(m) = 0 THEN <<Miss(l)>> ELSE [k \in 1..Len(m) |-> Join(l, m[k])]
    IN  [cols |-> cols,
         rows |-> Flatten([i \in 1..Len(left.rows) |-> Expand(left.rows[i])])]

\* pd.to_numeric(cell, errors="coerce").fillna(fill)
ToNumericFill(v, fill) == IF v.k = "num" THEN v ELSE Num(fill)

-----------------------------------------------------------------------------
(* The script before it has started: nothing read, nothing displayed. *)

Paths == {"data/dim_payments.csv", "data/dim_products.csv", "data/dim_customer.csv",
          "data/dim_sellers.csv", "data/dim_order.csv", "data/fact_order_lifecycle.csv"}

NoMetrics == <<>>

\* the cache key of a call without arguments
NoArgs == "()"

\* the caches of a process that has just started
ColdCache ==
    /\ read_cache = [p \in Paths |-> <<>>]
    /\ data_cache = [k \in {NoArgs} |-> <<>>]
    /\ reads = [p \in Paths |-> 0]
    /\ computed = 0
    /\ runs = 1

ScriptIdle ==
    /\ ColdCache
    /\ err = ""
    /\ df_payments = EmptyDF /\ df_products = EmptyDF /\ df_customers = EmptyDF
    /\ df_sellers = EmptyDF /\ df_orders = EmptyDF /\ df_lifecycle = EmptyDF
    /\ df_enriched = EmptyDF
    /\ metrics = NoMetrics

-----------------------------------------------------------------------------
(* load_data, one action per block of the function *)

Raise(e) ==
    /\ pc' = "raised"
    /\ err' = e

\* @st.cache_data with no ttl and no max_entries: an entry, once stored, is
\* returned for every later call with the same key; <<>> is a miss
\* A variant whose lookups always miss.
CacheGetNever(cache, key) == <<>>

CacheGet(cache, key) == cache[key]

\* safe_read_csv(path) behind its cache: the file is opened only on a miss
CachedRead(path) ==
    LET hit == CacheGet(read_cache, path)
        r == SafeReadCsv(disk[path])
    IN  IF hit # <<>>
        THEN [raised |-> FALSE, df |-> hit[1], miss |-> FALSE]
        ELSE [raised |-> r.raised, df |-> r.df, miss |-> TRUE]

\* lines 53-63: the six reads, made when load_data itself is not cached
ReadSources ==
    /\ pc = "start"
    /\ CacheGet(data_cache, NoArgs) = <<>>
    /\ LET pay == CachedRead("data/dim_payments.csv")
           pro == CachedRead("data/dim_products.csv")
           cus == CachedRead("data/dim_customer.csv")
           sel == CachedRead("data/dim_sellers.csv")
           ord == CachedRead("data/dim_order.csv")
           lif == CachedRead("data/fact_order_lifecycle.csv")
       IN  IF pay.raised \/ pro.raised \/ cus.raised \/ sel.raised \/ ord.raised \/ lif.raised
           THEN /\ Raise("read_csv")
                /\ UNCHANGED <<dfs, read_cache>>
           ELSE /\ df_payments' = pay.df
                /\ df_products' = pro.df
                /\ df_customers' = cus.df
                /\ df_sellers' = sel.df
                /\ df_orders' = ord.df
                /\ df_lifecycle' = lif.df
                /\ read_cache' = [p \in Paths |-> <<CachedRead(p).df>>]
                /\ pc' = "parse_orders"
                /\ UNCHANGED <<err, df_enriched>>
    /\ reads' = [p \in Paths |-> IF CachedRead(p).miss THEN reads[p] + 1 ELSE reads[p]]
    /\ UNCHANGED <<disk, metrics, arg, ret, data_cache, computed, runs>>

\* the loop "for col in date_cols", from the k-th column on
RECURSIVE ParseDateCols(_, _)
ParseDateCols(df, k) ==
    IF k > Len(DateCols) THEN df
    ELSE IF DateCols[k] \in df.cols
         THEN ParseDateCols(
                 SetColumn(df, DateCols[k], ToDatetimeSafe(Column(df, DateCols[k]), None)),
                 k + 1)
         ELSE ParseDateCols(df, k + 1)

\* lines 65-74
ParseOrderDates ==
    /\ pc = "parse_orders"
    /\ df_orders' = IF ~IsEmpty(df_orders) THEN ParseDateCols(df_orders, 1) ELSE df_orders
    /\ pc' = "parse_lifecycle"
    /\ UNCHANGED <<disk, err, df_payments, df_products, df_customers, df_sellers,
                   df_lifecycle, df_enriched, metrics, arg, ret, cachevars>>

\* lines 76-78
ParseLifecycleTimestamp ==
    /\ pc = "parse_lifecycle"
    /\ df_lifecycle' =
          IF ~IsEmpty(df_lifecycle) /\ "event_timestamp" \in df_lifecycle.cols
          THEN SetColumn(df_lifecycle, "event_timestamp",
                         ToDatetimeSafe(Column(df_lifecycle, "event_timestamp"), None))
          ELSE df_lifecycle
    /\ pc' = "normalize"
    /\ UNCHANGED <<disk, err, df_payments, df_products, df_customers, df_sellers,
                   df_orders, df_enriched, metrics, arg, ret, cachevars>>

\* lines 80-90
NormalizeColumns ==
    /\ pc = "normalize"
    /\ df_orders' = EnsureCol(EnsureCol(EnsureCol(df_orders, "order_id", ""),
                                        "customer_id", ""), "order_status", "")
    /\ df_payments' = EnsureCol(EnsureCol(df_payments, "order_id", ""),
                                "payment_installments", Num(0))
    /\ df_products' = EnsureCol(EnsureCol(df_products, "product_id", ""),
                                "product_category_name", "Unknown")
    /\ df_customers' = EnsureCol(EnsureCol(EnsureCol(df_customers, "customer_id", ""),
                                           "customer_city", NaStr), "customer_state", NaStr)
    /\ pc' = "numeric"
    /\ UNCHANGED <<disk, err, df_sellers, df_lifecycle, df_enriched, metrics, arg, ret, cachevars>>

\* lines 92-94
ConvertNumeric ==
    /\ pc = "numeric"
    /\ df_payments' =
          IF "payment_installments" \in df_payments.cols
          THEN SetColumn(df_payments, "payment_installments",
                  [i \in 1..Len(df_payments.rows) |->
                      ToNumericFill(df_payments.rows[i]["payment_installments"], 0)])
          ELSE df_payments
    /\ pc' = "copy"
    /\ UNCHANGED <<disk, err, df_products, df_customers, df_sellers, df_orders,
                   df_lifecycle, df_enriched, metrics, arg, ret, cachevars>>

\* lines 96-97
CopyOrders ==
    /\ pc = "copy"
    /\ df_enriched' = df_orders
    /\ pc' = "lifecycle"
    /\ UNCHANGED <<disk, err, df_payments, df_products, df_customers, df_sellers,
                   df_orders, df_lifecycle, metrics, arg, ret, cachevars>>

\* sort_values(["order_id", "event_timestamp"]): several keys are sorted with a
\* stable lexsort, missing timestamps last
LifecycleLess(a, b) ==
    LET ra == IdRank(a["order_id"])
        rb == IdRank(b["order_id"])
        ta == a["event_timestamp"]
        tb == b["event_timestamp"]
    IN  \/ ra < rb
        \/ /\ ra = rb
           /\ \/ ~IsNaT(ta) /\ IsNaT(tb)
              \/ ~IsNaT(ta) /\ ~IsNaT(tb) /\ ta.t < tb.t

Max(S) == CHOOSE x \in S : \A y \in S : x >= y

\* ("event_timestamp", "max") over one group
MaxTimestamp(g) ==
    LET ts == {g[i]["event_timestamp"].t : i \in {j \in 1..Len(g) : ~IsNaT(g[j]["event_timestamp"])}}
    IN  IF ts = {} THEN NaT ELSE DT(Max(ts))

\* lambda x: x.dropna().iloc[-1] if len(x.dropna()) > 0 else np.nan, over the
\* event_type cells of one group in sorted order
LastEventType(g) ==
    LET present == SelectSeq(g, LAMBDA r : r["event_type"] # NaStr)
    IN  IF Len(present) > 0 THEN present[Len(present)]["event_type"] ELSE NaStr

\* lines 102-106: one row per order_id, in key order; groupby drops missing keys
LifecycleAgg(lc) ==
    LET sorted == StableSort(lc.rows, LifecycleLess)
        keys == {sorted[i]["order_id"] : i \in 1..Len(sorted)} \ {NaStr}
        Group(k) == SelectSeq(sorted, LAMBDA r : r["order_id"] = k)
        KeyAt(n) == CHOOSE k \in keys :
                       Cardinality({x \in keys : IdRank(x) < IdRank(k)}) = n - 1
    IN  [cols |-> {"order_id", "event_timestamp", "event_type"},
         rows |-> [n \in 1..Cardinality(keys) |->
                     [c \in {"order_id", "event_timestamp", "event_type"} |->
                         IF c = "order_id" THEN KeyAt(n)
                         ELSE IF c = "event_timestamp" THEN MaxTimestamp(Group(KeyAt(n)))
                         ELSE LastEventType(Group(KeyAt(n)))]]]

\* lines 99-107
AddLifecycle ==
    /\ pc = "lifecycle"
    /\ IF ~IsEmpty(df_lifecycle) /\ "order_id" \in df_lifecycle.cols
       THEN IF "event_timestamp" \notin df_lifecycle.cols
            THEN Raise("KeyError: 'event_timestamp'") /\ UNCHANGED df_enriched
            ELSE IF "event_type" \notin df_lifecycle.cols
            THEN Raise("KeyError: 'event_type'") /\ UNCHANGED df_enriched
            ELSE /\ df_enriched' = MergeLeft(df_enriched, LifecycleAgg(df_lifecycle), "order_id")
                 /\ pc' = "customers"
                 /\ UNCHANGED err
       ELSE /\ pc' = "customers"
            /\ UNCHANGED <<err, df_enriched>>
    /\ UNCHANGED <<disk, df_payments, df_products, df_customers, df_sellers,
                   df_orders, df_lifecycle, metrics, arg, ret, cachevars>>

\* lines 109-112
MergeCustomers ==
    /\ pc = "customers"
    /\ df_enriched' =
          IF ~IsEmpty(df_customers) /\ "customer_id" \in df_enriched.cols
          THEN LET cols == {"customer_id", "customer_city", "customer_state"} \cap df_customers.cols
               IN  MergeLeft(df_enriched,
                             DropDuplicates(Project(df_customers, cols), "customer_id"),
                             "customer_id")
          ELSE df_enriched
    /\ pc' = "payments"
    /\ UNCHANGED <<disk, err, df_payments, df_products, df_customers, df_sellers,
                   df_orders, df_lifecycle, metrics, arg, ret, cachevars>>

InstallmentsLess(a, b) == a["payment_installments"].v < b["payment_installments"].v

\* sort_values("payment_installments"): a single key is sorted with the default
\* kind="quicksort", which does not keep the input order of equal keys
PaymentSortOrders(rows) == SortedOrders(rows, InstallmentsLess)

\* lines 114-119
MergePayments ==
    /\ pc = "payments"
    /\ IF ~IsEmpty(df_payments) /\ "order_id" \in df_payments.cols
       THEN \E sorted \in PaymentSortOrders(df_payments.rows) :
               LET payments_small ==
                       DropDuplicates([cols |-> df_payments.cols, rows |-> sorted], "order_id")
                   cols == {"order_id", "payment_type", "payment_installments",
                            "payment_value"} \cap payments_small.cols
               IN  df_enriched' =
                      IF cols # {}
                      THEN MergeLeft(df_enriched, Project(payments_small, cols), "order_id")
                      ELSE df_enriched
       ELSE UNCHANGED df_enriched
    /\ pc' = "payment_value"
    /\ UNCHANGED <<disk, err, df_payments, df_products, df_customers, df_sellers,
                   df_orders, df_lifecycle, metrics, arg, ret, cachevars>>

DefaultPaymentValue == 100

\* A variant that fills with zero.
PaymentValueCellZero(v) == ToNumericFill(v, 0)

PaymentValueCell(v) == ToNumericFill(v, DefaultPaymentValue)

\* lines 121-125
NormalizePaymentValue ==
    /\ pc = "payment_value"
    /\ df_enriched' =
          IF "payment_value" \in df_enriched.cols
          THEN SetColumn(df_enriched, "payment_value",
                  [i \in 1..Len(df_enriched.rows) |->
                      PaymentValueCell(df_enriched.rows[i]["payment_value"])])
          ELSE SetScalar(df_enriched, "payment_value", Num(DefaultPaymentValue))
    /\ pc' = "months"
    /\ UNCHANGED <<disk, err, df_payments, df_products, df_customers, df_sellers,
                   df_orders, df_lifecycle, metrics, arg, ret, cachevars>>

\* Period("M") of an instant, as text; the model's instants 1, 2 fall in one
\* month and later instants in the next
MonthText(t) == IF t <= 2 THEN "2024-01" ELSE "2024-02"

\* pd.to_datetime(cell, errors="coerce").dt.to_period("M").astype(str): the
\* missing period is rendered as the text "NaT"
MonthCell(v) ==
    LET d == ParseGeneric(v) IN IF IsNaT(d) THEN "NaT" ELSE MonthText(d.t)

AddMonth(df, col, name) ==
    IF col \in df.cols
    THEN SetColumn(df, name, [i \in 1..Len(df.rows) |-> MonthCell(df.rows[i][col])])
    ELSE SetScalar(df, name, NaStr)

\* lines 127-132
AddMonths ==
    /\ pc = "months"
    /\ df_enriched' = AddMonth(AddMonth(df_enriched, "order_purchase_timestamp", "month"),
                               "event_timestamp", "lifecycle_month")
    /\ pc' = "processing_time"
    /\ UNCHANGED <<disk, err, df_payments, df_products, df_customers, df_sellers,
                   df_orders, df_lifecycle, metrics, arg, ret, cachevars>>

\* A variant whose mask needs only the delivery date.
DeliveredMaskDeliveryOnly(row) == ~IsNaT(row["order_delivered_customer_date"])

\* line 136
DeliveredMask(row) ==
    /\ ~IsNaT(row["order_delivered_customer_date"])
    /\ ~IsNaT(row["order_purchase_timestamp"])

\* lines 137-140, one row
ProcessingTimeDays(row) ==
    IF DeliveredMask(row)
    THEN Frac(row["order_delivered_customer_date"].t - row["order_purchase_timestamp"].t,
              SecondsPerDay)
    ELSE NaFrac

\* lines 134-140
ProcessingTime ==
    /\ pc = "processing_time"
    /\ df_enriched' =
          IF /\ "order_delivered_customer_date" \in df_enriched.cols
             /\ "order_purchase_timestamp" \in df_enriched.cols
          THEN SetColumn(df_enriched, "processing_time_days",
                  [i \in 1..Len(df_enriched.rows) |-> ProcessingTimeDays(df_enriched.rows[i])])
          ELSE df_enriched
    /\ pc' = "return"
    /\ UNCHANGED <<disk, err, df_payments, df_products, df_customers, df_sellers,
                   df_orders, df_lifecycle, metrics, arg, ret, cachevars>>

\* lines 142-151: the returned dict
LoadDataResult ==
    [payments |-> df_payments, products |-> df_products, customers |-> df_customers,
     sellers |-> df_sellers, orders |-> df_orders, lifecycle |-> df_lifecycle,
     enriched |-> df_enriched]

\* lines 142-160: the dict is stored in the cache of load_data and the tables
\* are handed to the module-level names
Return ==
    /\ pc = "return"
    /\ data_cache' = [data_cache EXCEPT ![NoArgs] = <<LoadDataResult>>]
    /\ computed' = computed + 1
    /\ pc' = "tab1"
    /\ UNCHANGED <<disk, err, dfs, metrics, arg, ret, read_cache, reads, runs>>

\* line 153 when load_data is cached: the stored dict is returned and bound
\* to the module-level names, nothing is read or recomputed
LoadDataCached ==
    /\ pc = "start"
    /\ CacheGet(data_cache, NoArgs) # <<>>
    /\ LET data == CacheGet(data_cache, NoArgs)[1]
       IN  /\ df_payments' = data.payments
           /\ df_products' = data.products
           /\ df_customers' = data.customers
           /\ df_sellers' = data.sellers
           /\ df_orders' = data.orders
           /\ df_lifecycle' = data.lifecycle
           /\ df_enriched' = data.enriched
    /\ pc' = "tab1"
    /\ UNCHANGED <<disk, err, metrics, arg, ret, cachevars>>

-----------------------------------------------------------------------------
(* The tab renderers: module-level code, run in order after load_data.      *)
(* Only what decides their scalar metrics, their exceptions and their       *)
(* assignments to the module-level tables is modelled; chart calls are not. *)

RECURSIVE SumSeq(_)
SumSeq(ns) == IF Len(ns) = 0 THEN 0 ELSE Head(ns) + SumSeq(Tail(ns))

Delivered(df) == FilterRows(df, LAMBDA r : r["order_status"] = "delivered")

Count(df, Test(_)) == Len(FilterRows(df, Test).rows)

\* lines 175-205
Tab1 ==
    /\ pc = "tab1"
    /\ IF "order_delivered_customer_date" \notin df_enriched.cols
       THEN \* line 180: DataFrame.get returns None for the absent column
            /\ Raise("AttributeError: 'NoneType' object has no attribute 'notna'")
            /\ UNCHANGED metrics
       ELSE LET total_orders == Len(df_orders.rows)
                df_delivered ==
                    FilterRows(df_enriched,
                        LAMBDA r : /\ r["order_status"] = "delivered"
                                   /\ ~IsNaT(r["order_delivered_customer_date"]))
                timed ==
                    IF "order_purchase_timestamp" \in df_enriched.cols
                    THEN FilterRows(df_delivered,
                            LAMBDA r : ~IsNaT(r["order_purchase_timestamp"])).rows
                    ELSE <<>>
                avg_processing_time ==
                    IF /\ ~IsEmpty(df_delivered)
                       /\ "order_purchase_timestamp" \in df_delivered.cols
                    THEN IF Len(timed) = 0 THEN NaFrac
                         ELSE Frac(SumSeq([i \in 1..Len(timed) |->
                                        timed[i]["order_delivered_customer_date"].t
                                        - timed[i]["order_purchase_timestamp"].t]),
                                   Len(timed) * SecondsPerDay)
                    ELSE Frac(0, 1)
                delivered_count == Count(df_orders, LAMBDA r : r["order_status"] = "delivered")
                avg_review_score ==
                    IF total_orders > 0 THEN Frac(delivered_count * 5, total_orders)
                    ELSE Frac(0, 1)
                total_late_orders ==
                    IF "order_estimated_delivery_date" \in df_enriched.cols
                    THEN Count(df_enriched,
                            LAMBDA r : /\ ~IsNaT(r["order_delivered_customer_date"])
                                       /\ ~IsNaT(r["order_estimated_delivery_date"])
                                       /\ r["order_delivered_customer_date"].t
                                            > r["order_estimated_delivery_date"].t)
                    ELSE 0
                late_percentage ==
                    IF total_orders > 0 THEN Frac(total_late_orders * 100, total_orders)
                    ELSE Frac(0, 1)
            IN  /\ metrics' = Append(metrics,
                        [avg_processing_time |-> avg_processing_time,
                         total_orders |-> total_orders,
                         total_late_orders |-> total_late_orders,
                         late_percentage |-> late_percentage,
                         avg_review_score |-> avg_review_score])
                /\ pc' = "tab2"
                /\ UNCHANGED err
    /\ UNCHANGED <<disk, dfs, arg, ret, cachevars>>

\* the i-th draw of a generator seeded with 42
Drawn(i) == [k |-> "drawn", v |-> i]

\* lines 249-329
Tab2 ==
    /\ pc = "tab2"
    /\ LET df_paid == Delivered(df_enriched)
           total_sales ==
               SumSeq([i \in 1..Len(df_paid.rows) |-> df_paid.rows[i]["payment_value"].v])
           payment_fees ==
               IF "payment_installments" \in df_paid.cols
               THEN 2 * SumSeq([i \in 1..Len(df_paid.rows) |->
                                   df_paid.rows[i]["payment_installments"].v])
               ELSE 0
           \* total_sales - (total_sales * 0.10 + payment_fees)
           total_profit == Frac(9 * total_sales - 10 * payment_fees, 10)
           profit_margin ==
               IF total_sales > 0
               THEN Frac((9 * total_sales - 10 * payment_fees) * 100, 10 * total_sales)
               ELSE Frac(0, 1)
           \* lines 320-323: the name df_products is bound to a copy
           with_sales ==
               IF \/ "sales" \notin df_products.cols
                  \/ \A i \in 1..Len(df_products.rows) : df_products.rows[i]["sales"].k = "nan"
               THEN SetColumn(df_products, "sales",
                              [i \in 1..Len(df_products.rows) |-> Drawn(i)])
               ELSE df_products
       IN  /\ metrics' = Append(metrics,
                   [total_sales |-> total_sales,
                    total_profit |-> total_profit,
                    profit_margin |-> profit_margin,
                    total_shipping |-> Frac(total_sales, 10)])
           \* line 324: profit = sales * 0.20
           /\ df_products' = SetColumn(with_sales, "profit",
                                [i \in 1..Len(with_sales.rows) |->
                                    [k |-> "fifth_of", v |-> with_sales.rows[i]["sales"].v]])
    /\ pc' = "tab3"
    /\ UNCHANGED <<disk, err, df_payments, df_customers, df_sellers, df_orders,
                   df_lifecycle, df_enriched, arg, ret, cachevars>>

\* Series.mode()[0]: the most frequent present value, the smallest in sort
\* order among equals; "" stands for the empty result, whose [0] is a KeyError
Mode(values) ==
    LET present == {values[i] : i \in 1..Len(values)} \ {NaStr}
        Freq(x) == Cardinality({i \in 1..Len(values) : values[i] = x})
        top == {x \in present : \A y \in present : Freq(y) <= Freq(x)}
    IN  IF present = {} THEN ""
        ELSE CHOOSE x \in top : \A y \in top : IdRank(x) <= IdRank(y)

\* lines 367-396
Tab3 ==
    /\ pc = "tab3"
    /\ LET has_rows == ~IsEmpty(df_products)
           best_selling ==
               IF has_rows /\ "product_id" \in df_products.cols
               THEN df_products.rows[1]["product_id"] ELSE "N/A"
           top_category ==
               IF "product_category_name" \in df_products.cols /\ has_rows
               THEN Mode(Column(df_products, "product_category_name")) ELSE "N/A"
           scored ==
               IF has_rows
               THEN SetColumn(df_products, "review_score",
                              [i \in 1..Len(df_products.rows) |-> Drawn(i)])
               ELSE df_products
       IN  IF top_category = ""
           THEN \* line 374: mode() of an all-missing column is empty
                /\ Raise("KeyError: 0")
                /\ UNCHANGED <<metrics, df_products>>
           ELSE /\ metrics' = Append(metrics,
                        [best_selling |-> best_selling,
                         total_quantity |-> Len(df_orders.rows),
                         top_category |-> top_category,
                         avg_review_product |->
                             IF "review_score" \in scored.cols THEN "mean" ELSE "4.00"])
                /\ df_products' =
                      IF "sales" \in scored.cols
                      THEN SetColumn(scored, "profit",
                              [i \in 1..Len(scored.rows) |->
                                  [k |-> "fifth_of", v |-> scored.rows[i]["sales"].v]])
                      ELSE scored
                /\ pc' = "tab4"
                /\ UNCHANGED err
    /\ UNCHANGED <<disk, df_payments, df_customers, df_sellers, df_orders,
                   df_lifecycle, df_enriched, arg, ret, cachevars>>

\* Series.nunique(): distinct present values
NUnique(values) == Cardinality({values[i] : i \in 1..Len(values)} \ {NaStr})

\* groupby(key)["payment_value"].sum().idxmax(): the first key in sort order
\* with the largest sum; "N/A" when there is no group (ValueError, handled)
TopBySales(df, key) ==
    LET keys == {df.rows[i][key] : i \in 1..Len(df.rows)} \ {NaStr}
        Total(x) == SumSeq([i \in 1..Len(df.rows) |->
                        IF df.rows[i][key] = x THEN df.rows[i]["payment_value"].v ELSE 0])
        top == {x \in keys : \A y \in keys : Total(y) <= Total(x)}
    IN  IF keys = {} THEN "N/A"
        ELSE CHOOSE x \in top : \A y \in top : IdRank(x) <= IdRank(y)

\* lines 457-539
Tab4 ==
    /\ pc = "tab4"
    /\ LET delivered == Delivered(df_enriched)
           \* lines 465-480: customer_id is in both tables after load_data
           merged ==
               IF ~IsEmpty(df_customers)
               THEN MergeLeft(delivered,
                       DropDuplicates(Project(df_customers,
                           {"customer_id", "customer_city", "customer_state"}), "customer_id"),
                       "customer_id")
               ELSE delivered
           \* lines 483-486
           df_paid ==
               IF "customer_state" \notin merged.cols
               THEN SetScalar(merged, "customer_state", "Unknown")
               ELSE SetColumn(merged, "customer_state",
                       [i \in 1..Len(merged.rows) |->
                           IF merged.rows[i]["customer_state"] = NaStr THEN "Unknown"
                           ELSE merged.rows[i]["customer_state"]])
           total_customers ==
               IF "customer_unique_id" \in df_customers.cols
               THEN NUnique(Column(df_customers, "customer_unique_id"))
               ELSE IF "customer_id" \in df_customers.cols
               THEN NUnique(Column(df_customers, "customer_id"))
               ELSE 0
           total_sales_paid ==
               SumSeq([i \in 1..Len(df_paid.rows) |-> df_paid.rows[i]["payment_value"].v])
           avg_order_value ==
               IF Len(df_paid.rows) > 0 THEN Frac(total_sales_paid, Len(df_paid.rows))
               ELSE Frac(0, 1)
           top_customer ==
               IF Len(df_paid.rows) > 0 THEN TopBySales(df_paid, "customer_id") ELSE "N/A"
           valid_regions == FilterRows(df_paid, LAMBDA r : r["customer_state"] # "Unknown")
           top_region ==
               IF Len(df_paid.rows) > 0
               THEN IF ~IsEmpty(valid_regions) THEN TopBySales(valid_regions, "customer_state")
                    ELSE "Unknown"
               ELSE "N/A"
       IN  metrics' = Append(metrics,
               [total_customers |-> total_customers,
                top_customer |-> top_customer,
                top_region |-> top_region,
                avg_order_value |-> avg_order_value])
    /\ pc' = "rendered"
    /\ UNCHANGED <<disk, err, dfs, arg, ret, cachevars>>

Next ==
    \/ ReadSources
    \/ ParseOrderDates
    \/ ParseLifecycleTimestamp
    \/ NormalizeColumns
    \/ ConvertNumeric
    \/ CopyOrders
    \/ AddLifecycle
    \/ MergeCustomers
    \/ MergePayments
    \/ NormalizePaymentValue
    \/ AddMonths
    \/ ProcessingTime
    \/ Return
    \/ Tab1
    \/ Tab2
    \/ Tab3
    \/ Tab4

-----------------------------------------------------------------------------
(* The files on disk.  A file is absent, unreadable, or holds a table with  *)
(* at least one row and some of the columns of its source.                  *)

PaymentsPath == "data/dim_payments.csv"

ProductsPath == "data/dim_products.csv"

CustomersPath == "data/dim_customer.csv"

SellersPath == "data/dim_sellers.csv"

OrdersPath == "data/dim_order.csv"

LifecyclePath == "data/fact_order_lifecycle.csv"

OrderRow(oid, cid, st, p, d, e) ==
    [order_id |-> oid, customer_id |-> cid, order_status |-> st,
     order_purchase_timestamp |-> p, order_delivered_customer_date |-> d,
     order_estimated_delivery_date |-> e]

PaymentRow(oid, ty, n, v) ==
    [order_id |-> oid, payment_type |-> ty, payment_installments |-> n, payment_value |-> v]

CustomerRow(cid, city, st) ==
    [customer_id |-> cid, customer_city |-> city, customer_state |-> st]

ProductRow(pid, cat) == [product_id |-> pid, product_category_name |-> cat]

LifecycleRow(oid, ts, ty) == [order_id |-> oid, event_timestamp |-> ts, event_type |-> ty]

OrderCols == {"order_id", "customer_id", "order_status", "order_purchase_timestamp",
              "order_delivered_customer_date", "order_estimated_delivery_date"}

PaymentCols == {"order_id", "payment_type", "payment_installments", "payment_value"}

CustomerCols == {"customer_id", "customer_city", "customer_state"}

ProductCols == {"product_id", "product_category_name"}

LifecycleCols == {"order_id", "event_timestamp", "event_type"}

\* the table holding the given columns of the given full rows
Table(cs, rows) == [cols |-> cs, rows |-> [i \in 1..Len(rows) |-> Restrict(rows[i], cs)]]

FullOrders ==
    Table(OrderCols,
          <<OrderRow("A", "c1", "delivered", RawTs(F1, 1), RawTs(F1, 3), RawTs(F1, 2)),
            OrderRow("B", "c2", "shipped", RawTs(F1, 2), NanTs, RawTs(F1, 4))>>)

FullPayments ==
    Table(PaymentCols,
          <<PaymentRow("A", "boleto", Num(3), Num(20)),
            PaymentRow("A", "credit_card", Num(1), Num(10))>>)

FullCustomers == Table(CustomerCols, <<CustomerRow("c1", "sao paulo", "SP")>>)

FullProducts == Table(ProductCols, <<ProductRow("p1", "toys"), ProductRow("p2", "books")>>)

FullSellers == [cols |-> {"seller_id"}, rows |-> <<[seller_id |-> "s1"]>>]

FullLifecycle ==
    Table(LifecycleCols,
          <<LifecycleRow("A", RawTs(F1, 1), "order_created"),
            LifecycleRow("A", RawTs(F1, 2), "order_shipped")>>)

FullTable(p) ==
    CASE p = PaymentsPath -> FullPayments
      [] p = ProductsPath -> FullProducts
      [] p = CustomersPath -> FullCustomers
      [] p = SellersPath -> FullSellers
      [] p = OrdersPath -> FullOrders
      [] p = LifecyclePath -> FullLifecycle

FullDisk == [p \in Paths |-> File(FullTable(p))]

\* every source absent, unreadable or complete
DisksAbsence ==
    {[p \in Paths |-> IF st[p] = "ok" THEN File(FullTable(p))
                      ELSE IF st[p] = "absent" THEN Absent ELSE Garbled] :
        st \in [Paths -> {"ok", "absent", "garbled"}]}

\* one source carrying only some of its columns, the others complete
DisksSchema ==
    UNION {{[FullDisk EXCEPT ![p] = File(Project(FullTable(p), cs))] :
                cs \in (SUBSET FullTable(p).cols) \ {{}}} : p \in Paths}

\* a product catalogue whose category cells are all empty
DiskNoCategories ==
    [FullDisk EXCEPT ![ProductsPath] =
        File(Table(ProductCols, <<ProductRow("p1", NaStr), ProductRow("p2", NaStr)>>))]

ScriptStart ==
    /\ ScriptIdle
    /\ pc = "start"
    /\ arg = <<>>
    /\ ret = <<>>

Init ==
    /\ ScriptStart
    /\ disk \in DisksAbsence \cup DisksSchema \cup {DiskNoCategories}

Spec == Init /\ [][Next]_vars

\* the module-level table read from a path
Loaded(p) ==
    CASE p = PaymentsPath -> df_payments
      [] p = ProductsPath -> df_products
      [] p = CustomersPath -> df_customers
      [] p = SellersPath -> df_sellers
      [] p = OrdersPath -> df_orders
      [] p = LifecyclePath -> df_lifecycle

LoadDataErrors == {"read_csv", "KeyError: 'event_timestamp'", "KeyError: 'event_type'"}

MissingColumnErrors ==
    {"KeyError: 'event_timestamp'", "KeyError: 'event_type'",
     "AttributeError: 'NoneType' object has no attribute 'notna'"}

LoadDataReturned == pc \in {"tab1", "tab2", "tab3", "tab4", "rendered"}

\* C2: safe_read_csv never raises and gives a zero-row table for a source that
\* is absent or unreadable; with any subset of the six sources absent or
\* unreadable and the others complete, load_data raises nothing.
C2_AbsentSourcesTolerated ==
    /\ err # "read_csv"
    /\ pc # "start" =>
          \A p \in Paths : disk[p].state # "ok" => Len(Loaded(p).rows) = 0
    /\ disk \in DisksAbsence => err \notin LoadDataErrors

\* load_data has returned with the orders file absent and the lifecycle file
\* unreadable
C2_Witness ==
    /\ LoadDataReturned
    /\ disk[OrdersPath].state = "absent"
    /\ disk[LifecyclePath].state = "garbled"
    /\ disk[PaymentsPath].state = "ok"
    /\ Len(df_orders.rows) = 0

\* C7: when the Orders source has zero rows the enriched table has zero rows
\* and the four renderers run to completion without raising, the metrics
\* taking their zero defaults, whatever the other five tables hold.
C7_EmptyOrdersRenders ==
    disk[OrdersPath].state # "ok" =>
        /\ Len(df_enriched.rows) = 0
        /\ pc # "raised"
        /\ Len(metrics) >= 1 =>
              /\ metrics[1].total_orders = 0
              /\ metrics[1].total_late_orders = 0
              /\ metrics[1].avg_processing_time = Frac(0, 1)

\* C8: with every source a non-empty table carrying any subset of its
\* columns, no step of load_data and no renderer fails on an absent column.
C8_MissingColumnsTolerated ==
    (\A p \in Paths : disk[p].state = "ok") => err \notin MissingColumnErrors

-----------------------------------------------------------------------------
(* Row counts through the three joins *)

MaxJoinRows == 2

JoinOrders ==
    {Table(OrderCols, rows) : rows \in
        {<<OrderRow("A", "c1", "delivered", RawTs(F1, 1), RawTs(F1, 3), RawTs(F1, 2))>>,
         <<OrderRow("A", "c1", "delivered", RawTs(F1, 1), RawTs(F1, 3), RawTs(F1, 2)),
           OrderRow("B", "c2", "shipped", RawTs(F1, 2), NanTs, RawTs(F1, 4))>>,
         <<OrderRow("B", "c1", "delivered", RawTs(F1, 1), RawTs(F1, 3), RawTs(F1, 2)),
           OrderRow("A", "c1", "delivered", RawTs(F1, 2), RawTs(F1, 3), RawTs(F1, 4)),
           OrderRow("C", "c2", "shipped", RawTs(F1, 2), NanTs, RawTs(F1, 4))>>}}

JoinLifecycleRows ==
    {LifecycleRow("A", RawTs(F1, 1), "order_created"),
     LifecycleRow("B", RawTs(F1, 2), "order_shipped")}

JoinCustomerRows ==
    {CustomerRow("c1", "sao paulo", "SP"), CustomerRow("c1", "rio de janeiro", "RJ")}

JoinPaymentRows ==
    {PaymentRow("A", "credit_card", Num(1), Num(10)),
     PaymentRow("B", "boleto", Num(1), Num(20))}

\* an absent file or a table of 1..MaxJoinRows rows over the given columns
AbsentOrRows(cs, rowset, n) ==
    {Absent} \cup {File(Table(cs, rows)) : rows \in SeqsUpTo(rowset, n)}

DisksJoin ==
    {[FullDisk EXCEPT ![OrdersPath] = File(o), ![LifecyclePath] = l,
                      ![CustomersPath] = c, ![PaymentsPath] = p] :
        o \in JoinOrders,
        l \in AbsentOrRows(LifecycleCols, JoinLifecycleRows, MaxJoinRows),
        c \in AbsentOrRows(CustomerCols, JoinCustomerRows, MaxJoinRows),
        p \in AbsentOrRows(PaymentCols, JoinPaymentRows, MaxJoinRows)}

InitJoin ==
    /\ ScriptStart
    /\ disk \in DisksJoin

SpecJoin == InitJoin /\ [][Next]_vars

AfterCopy ==
    pc \in {"lifecycle", "customers", "payments", "payment_value", "months",
            "processing_time", "return", "tab1", "tab2", "tab3", "tab4", "rendered"}

\* C1: whatever the Lifecycle, Customer and Payment tables hold (empty, or
\* several rows per key), the enriched table has one row per Orders row, in
\* the Orders table's order: no join drops or duplicates an order.
C1_RowCountPreserved ==
    AfterCopy =>
        /\ Len(df_enriched.rows) = Len(df_orders.rows)
        /\ \A i \in 1..Len(df_enriched.rows) :
              df_enriched.rows[i]["order_id"] = df_orders.rows[i]["order_id"]

\* load_data has returned after joining three orders with a lifecycle table, a
\* customer table and a payment table that each hold two rows for one key
C1_Witness ==
    /\ LoadDataReturned
    /\ Len(df_orders.rows) = 3
    /\ Len(df_enriched.rows) = 3
    /\ Len(df_lifecycle.rows) = 2
    /\ df_lifecycle.rows[1]["order_id"] = df_lifecycle.rows[2]["order_id"]
    /\ Len(df_customers.rows) = 2
    /\ df_customers.rows[1]["customer_id"] = df_customers.rows[2]["customer_id"]
    /\ Len(df_payments.rows) = 2
    /\ df_payments.rows[1]["order_id"] = df_payments.rows[2]["order_id"]

-----------------------------------------------------------------------------
(* The payment join *)

MaxPayRows == 2

ThreeOrders ==
    Table(OrderCols,
          <<OrderRow("A", "c1", "delivered", RawTs(F1, 1), RawTs(F1, 3), RawTs(F1, 2)),
            OrderRow("B", "c2", "shipped", RawTs(F1, 2), NanTs, RawTs(F1, 4)),
            OrderRow("C", "c1", "delivered", RawTs(F1, 2), RawTs(F1, 3), RawTs(F1, 4))>>)

\* the payment type tells the rows of one order apart
PayRows ==
    {PaymentRow(oid, tv[1], n, tv[2]) :
        oid \in {"A", "B"},
        n \in {Num(1), Num(3), StrNum},
        tv \in {<<"credit_card", Num(10)>>, <<"boleto", Num(20)>>, <<"voucher", StrNum>>}}

DisksPay ==
    {[FullDisk EXCEPT ![OrdersPath] = File(ThreeOrders), ![PaymentsPath] = p] :
        p \in AbsentOrRows(PaymentCols, PayRows, MaxPayRows)
              \cup AbsentOrRows(PaymentCols \ {"payment_value"}, PayRows, MaxPayRows)}

InitPay ==
    /\ ScriptStart
    /\ disk \in DisksPay

SpecPay == InitPay /\ [][Next]_vars

AfterPaymentValue ==
    pc \in {"months", "processing_time", "return", "tab1", "tab2", "tab3", "tab4", "rendered"}

\* indexes of the Payment rows of an order (installments already numeric)
PaymentsOf(oid) == {j \in 1..Len(df_payments.rows) : df_payments.rows[j]["order_id"] = oid}

\* those among them with the smallest installment count
SmallestOf(oid) ==
    {j \in PaymentsOf(oid) :
        \A k \in PaymentsOf(oid) :
            df_payments.rows[j]["payment_installments"].v
                <= df_payments.rows[k]["payment_installments"].v}

\* enriched row e carries the payment columns of Payment row j
CarriesPayment(e, j) ==
    /\ e["payment_installments"] = df_payments.rows[j]["payment_installments"]
    /\ e["payment_type"] = df_payments.rows[j]["payment_type"]
    /\ "payment_value" \in df_payments.cols =>
          e["payment_value"] = PaymentValueCell(df_payments.rows[j]["payment_value"])

\* C3: an order with Payment rows carries the payment columns of the row with
\* the smallest installment count, the first such row of the input table when
\* several tie; an order without Payment rows has payment_value 100.0.
C3_SmallestInstallmentFirstRow ==
    AfterPaymentValue =>
        \A i \in 1..Len(df_enriched.rows) :
            LET e == df_enriched.rows[i]
                own == SmallestOf(e["order_id"])
            IN  IF own # {} THEN CarriesPayment(e, Min(own))
                ELSE e["payment_value"] = Num(DefaultPaymentValue)

\* what holds of the payment join whatever order the sort leaves ties in: the
\* columns come from some row with the smallest installment count
PaymentFromSomeSmallest ==
    AfterPaymentValue =>
        \A i \in 1..Len(df_enriched.rows) :
            LET e == df_enriched.rows[i]
                own == SmallestOf(e["order_id"])
            IN  IF own # {} THEN \E j \in own : CarriesPayment(e, j)
                ELSE e["payment_value"] = Num(DefaultPaymentValue)

\* C6: after load_data every enriched row has a numeric payment_value: the
\* joined value when it is a number, 100.0 when it is not a number, when the
\* order has no payment or when the Payment table has no payment_value column.
C6_PaymentValueNumeric ==
    AfterPaymentValue =>
        /\ "payment_value" \in df_enriched.cols
        /\ \A i \in 1..Len(df_enriched.rows) :
              LET e == df_enriched.rows[i]
                  own == SmallestOf(e["order_id"])
              IN  /\ e["payment_value"].k = "num"
                  /\ IF own # {} /\ "payment_value" \in df_payments.cols
                     THEN \E j \in own :
                            LET raw == df_payments.rows[j]["payment_value"] IN
                            /\ e["payment_type"] = df_payments.rows[j]["payment_type"]
                            /\ e["payment_value"] = IF raw.k = "num" THEN raw ELSE Num(100)
                     ELSE e["payment_value"] = Num(100)

\* order A joined a payment whose value is a number, order B one whose value
\* is not, order C none
C6_Witness ==
    /\ LoadDataReturned
    /\ "payment_value" \in df_payments.cols
    /\ Len(df_payments.rows) = 2
    /\ df_payments.rows[1]["order_id"] = "A"
    /\ df_payments.rows[1]["payment_value"] = Num(20)
    /\ df_payments.rows[2]["order_id"] = "B"
    /\ df_payments.rows[2]["payment_value"] = StrNum
    /\ df_enriched.rows[1]["payment_value"] = Num(20)
    /\ df_enriched.rows[2]["payment_value"] = Num(100)
    /\ df_enriched.rows[3]["payment_value"] = Num(100)

-----------------------------------------------------------------------------
(* The lifecycle aggregate *)

MaxLifeRows == 3

\* order A with every timestamp / event type combination, order B with one row
LifeRows ==
    {LifecycleRow("A", ts, ty) :
        ts \in {RawTs(F1, 1), RawTs(F1, 2), BadTs},
        ty \in {"order_created", "order_shipped", NaStr}}
    \cup {LifecycleRow("B", RawTs(F1, 1), "order_paid")}

DisksLife ==
    {[FullDisk EXCEPT ![LifecyclePath] = l] :
        l \in AbsentOrRows(LifecycleCols, LifeRows, MaxLifeRows)}

InitLife ==
    /\ ScriptStart
    /\ disk \in DisksLife

SpecLife == InitLife /\ [][Next]_vars

AfterLifecycle ==
    pc \in {"customers", "payments", "payment_value", "months", "processing_time",
            "return", "tab1", "tab2", "tab3", "tab4", "rendered"}

\* indexes of the Lifecycle rows of an order (timestamps already parsed)
EventsOf(oid) == {j \in 1..Len(df_lifecycle.rows) : df_lifecycle.rows[j]["order_id"] = oid}

TimedEventsOf(oid) == {j \in EventsOf(oid) : ~IsNaT(df_lifecycle.rows[j]["event_timestamp"])}

\* the rows of the order carrying its latest timestamp
LatestEventsOf(oid) ==
    {j \in TimedEventsOf(oid) :
        \A k \in TimedEventsOf(oid) :
            df_lifecycle.rows[k]["event_timestamp"].t <= df_lifecycle.rows[j]["event_timestamp"].t}

\* C4: for an order with Lifecycle rows the enriched event_timestamp is the
\* latest non-missing timestamp of its rows, and the enriched event_type is
\* the event_type of a row carrying that latest timestamp: a row whose
\* timestamp is missing never supplies it.  (Stated for orders whose timed
\* rows all have an event_type.)
C4_LastEventByTimestamp ==
    AfterLifecycle =>
        \A i \in 1..Len(df_enriched.rows) :
            LET e == df_enriched.rows[i]
                latest == LatestEventsOf(e["order_id"])
            IN  (/\ latest # {}
                 /\ \A j \in TimedEventsOf(e["order_id"]) :
                        df_lifecycle.rows[j]["event_type"] # NaStr)
                => /\ \E j \in latest :
                        e["event_timestamp"] = df_lifecycle.rows[j]["event_timestamp"]
                   /\ \E j \in latest : e["event_type"] = df_lifecycle.rows[j]["event_type"]

\* what the aggregate does give: the latest timestamp, and the event_type of
\* the last row of the order, timed rows first, that has an event_type
LifecycleTimestampIsLatest ==
    AfterLifecycle =>
        \A i \in 1..Len(df_enriched.rows) :
            LET e == df_enriched.rows[i]
                latest == LatestEventsOf(e["order_id"])
                untimed == {j \in EventsOf(e["order_id"]) \ TimedEventsOf(e["order_id"]) :
                               df_lifecycle.rows[j]["event_type"] # NaStr}
            IN  /\ latest # {} =>
                    \E j \in latest :
                        e["event_timestamp"] = df_lifecycle.rows[j]["event_timestamp"]
                /\ (EventsOf(e["order_id"]) # {} /\ latest = {}) => e["event_timestamp"] = NaT
                /\ untimed # {} =>
                    e["event_type"] = df_lifecycle.rows[Max(untimed)]["event_type"]

-----------------------------------------------------------------------------
(* Processing time *)

MaxOrderRows == 2

OrderIdAt == <<"A", "B", "C">>

OrderTimes == {NanTs, RawTs(F1, 1), RawTs(F1, 3), RawTs(F2, 2)}

\* tables of 1..MaxOrderRows orders with every pair of purchase and delivery
\* texts, and the same tables without one of the two columns
TimedOrders ==
    UNION {{Table(cs, [i \in 1..n |->
                OrderRow(OrderIdAt[i], "c1", "delivered", pd[i][1], pd[i][2], RawTs(F1, 2))]) :
                pd \in [1..n -> OrderTimes \X OrderTimes],
                cs \in {OrderCols, OrderCols \ {"order_purchase_timestamp"},
                        OrderCols \ {"order_delivered_customer_date"}}} :
            n \in 1..MaxOrderRows}

DisksOrders == {[FullDisk EXCEPT ![OrdersPath] = File(o)] : o \in TimedOrders}

InitOrders ==
    /\ ScriptStart
    /\ disk \in DisksOrders

SpecOrders == InitOrders /\ [][Next]_vars

AfterProcessingTime == pc \in {"return", "tab1", "tab2", "tab3", "tab4", "rendered"}

HasProcessingTime(df, i) ==
    /\ "processing_time_days" \in df.cols
    /\ df.rows[i]["processing_time_days"].k = "num"

BothTimestamps(df, i) ==
    /\ "order_purchase_timestamp" \in df.cols
    /\ "order_delivered_customer_date" \in df.cols
    /\ df.rows[i]["order_purchase_timestamp"].shape = "datetime"
    /\ df.rows[i]["order_delivered_customer_date"].shape = "datetime"

\* C5: an enriched row has processing_time_days exactly when its purchase
\* and delivery timestamps are both non-missing, and then it is (delivery -
\* purchase) in seconds over 86400, negative when delivery precedes purchase.
C5_ProcessingTimeIff ==
    AfterProcessingTime =>
        \A i \in 1..Len(df_enriched.rows) :
            /\ HasProcessingTime(df_enriched, i) <=> BothTimestamps(df_enriched, i)
            /\ HasProcessingTime(df_enriched, i) =>
                  /\ df_enriched.rows[i]["processing_time_days"].num =
                        df_enriched.rows[i]["order_delivered_customer_date"].t
                        - df_enriched.rows[i]["order_purchase_timestamp"].t
                  /\ df_enriched.rows[i]["processing_time_days"].den = 86400

\* one row delivered before it was purchased (negative duration kept), one row
\* with a delivery date but no purchase timestamp (left unset)
C5_Witness ==
    /\ LoadDataReturned
    /\ Len(df_enriched.rows) = 2
    /\ "processing_time_days" \in df_enriched.cols
    /\ df_enriched.rows[1]["processing_time_days"] = Frac(0 - 2, 86400)
    /\ df_enriched.rows[2]["order_purchase_timestamp"] = NaT
    /\ df_enriched.rows[2]["order_delivered_customer_date"] = DT(3)
    /\ df_enriched.rows[2]["processing_time_days"] = NaFrac

-----------------------------------------------------------------------------
(* The month columns *)

AfterMonths == pc \in {"processing_time", "return", "tab1", "tab2", "tab3", "tab4", "rendered"}

\* the month cell a timestamp cell should have: missing for a missing
\* timestamp, the year-month text otherwise
ExpectedMonth(v) == IF IsNaT(v) THEN NaStr ELSE MonthText(v.t)

MonthFollows(df, col, name) ==
    col \in df.cols =>
        \A i \in 1..Len(df.rows) : df.rows[i][name] = ExpectedMonth(df.rows[i][col])

\* C11: in the enriched table a row with a missing order_purchase_timestamp
\* has a missing month and a row with a missing joined event_timestamp has a
\* missing lifecycle_month; a present timestamp gives its year-month text.
C11_MissingTimestampMissingMonth ==
    AfterMonths =>
        /\ MonthFollows(df_enriched, "order_purchase_timestamp", "month")
        /\ MonthFollows(df_enriched, "event_timestamp", "lifecycle_month")

\* what the month columns do satisfy: present timestamps carry their
\* year-month, missing ones the text "NaT"
MonthTextOrNaT ==
    AfterMonths =>
        \A c \in {<<"order_purchase_timestamp", "month">>, <<"event_timestamp", "lifecycle_month">>} :
            c[1] \in df_enriched.cols =>
                \A i \in 1..Len(df_enriched.rows) :
                    df_enriched.rows[i][c[2]] =
                        IF IsNaT(df_enriched.rows[i][c[1]]) THEN "NaT"
                        ELSE MonthText(df_enriched.rows[i][c[1]].t)

-----------------------------------------------------------------------------
(* The script run again in the same process.  Streamlit executes the whole *)
(* script on every render; the caches of safe_read_csv and load_data live  *)
(* as long as the process, and the files may change between two runs.      *)

MaxRuns == 2

\* another render: the module-level names start unbound again
Rerun ==
    /\ pc \in {"rendered", "raised"}
    /\ runs < MaxRuns
    /\ runs' = runs + 1
    /\ pc' = "start"
    /\ err' = ""
    /\ df_payments' = EmptyDF /\ df_products' = EmptyDF /\ df_customers' = EmptyDF
    /\ df_sellers' = EmptyDF /\ df_orders' = EmptyDF /\ df_lifecycle' = EmptyDF
    /\ df_enriched' = EmptyDF
    /\ metrics' = NoMetrics
    /\ UNCHANGED <<disk, arg, ret, read_cache, data_cache, reads, computed>>

\* what the files may become between two runs: all restored, all deleted,
\* the products file rewritten
DiskChanges == {FullDisk, [p \in Paths |-> Absent], DiskNoCategories}

ChangeDisk ==
    /\ pc \in {"rendered", "raised"}
    /\ disk' \in DiskChanges \ {disk}
    /\ UNCHANGED <<pc, err, dfs, metrics, arg, ret, cachevars>>

NextCache ==
    \/ Next
    \/ LoadDataCached
    \/ Rerun
    \/ ChangeDisk

DisksCache == DisksSchema \cup {FullDisk, DiskNoCategories, [p \in Paths |-> Absent]}

InitCache ==
    /\ ScriptStart
    /\ disk \in DisksCache

SpecCache == InitCache /\ [][NextCache]_vars

\* an entry of a cache, once stored, stays as it is
EntriesKept(cache) ==
    \A k \in DOMAIN cache : cache[k] # <<>> => cache'[k] = cache[k]

-----------------------------------------------------------------------------
(* The module-level tables while the tabs render *)

Rendering == pc \in {"tab1", "tab2", "tab3", "tab4", "rendered"}

\* C13: while and after the four tabs render, every module-level table
\* (payments, products, customers, sellers, orders, lifecycle, enriched) is
\* the table load_data returned, so no tab sees a column another tab added.
C13_RenderingLeavesTablesUnchanged ==
    Rendering => LoadDataResult = data_cache[NoArgs][1]

\* what does hold: every table but products stays as load_data returned it
OnlyProductsRebound ==
    Rendering =>
        [LoadDataResult EXCEPT !.products = EmptyDF]
            = [data_cache[NoArgs][1] EXCEPT !.products = EmptyDF]

\* what tab3 sees of products once tab2 has run: a table that carries sales
\* and profit columns load_data did not return
ProductsCarrySales ==
    /\ pc = "tab3"
    /\ "sales" \notin data_cache[NoArgs][1].products.cols
    /\ {"sales", "profit"} \subseteq df_products.cols

-----------------------------------------------------------------------------
(* The customer join *)

MaxCustRows == 2

CustRows ==
    {CustomerRow(cid, cs[1], cs[2]) :
        cid \in {"c1", "c2"}, cs \in {<<"sao paulo", "SP">>, <<"rio de janeiro", "RJ">>}}

\* orders of customers c1, c2, c1 against an absent Customer file or one of
\* 1..MaxCustRows rows for c1 and c2
DisksCust ==
    {[FullDisk EXCEPT ![OrdersPath] = File(ThreeOrders), ![CustomersPath] = c] :
        c \in AbsentOrRows(CustomerCols, CustRows, MaxCustRows)}

InitCust ==
    /\ ScriptStart
    /\ disk \in DisksCust

SpecCust == InitCust /\ [][Next]_vars

AfterCustomers ==
    pc \in {"payments", "payment_value", "months", "processing_time", "return",
            "tab1", "tab2", "tab3", "tab4", "rendered"}

\* indexes of the Customer rows with a customer_id
CustomersOf(cid) ==
    {j \in 1..Len(df_customers.rows) : df_customers.rows[j]["customer_id"] = cid}

\* a cell of a row, missing when the table has no such column
CellOrMissing(df, i, c) == IF c \in df.cols THEN df.rows[i][c] ELSE NaStr

\* C14: an enriched row whose customer_id occurs in the Customer table has the
\* customer_city and customer_state of the first Customer row with that id;
\* a row whose customer_id occurs in no Customer row has both missing.
C14_FirstCustomerRowWins ==
    AfterCustomers =>
        \A i \in 1..Len(df_enriched.rows) :
            LET found == CustomersOf(df_enriched.rows[i]["customer_id"])
            IN  \A c \in {"customer_city", "customer_state"} :
                    CellOrMissing(df_enriched, i, c) =
                        IF found = {} THEN NaStr
                        ELSE df_customers.rows[Min(found)][c]

\* customer c1 has two Customer rows with different states: order A carries
\* the first one's, order B (customer c2, in no Customer row) has none
C14_Witness ==
    /\ LoadDataReturned
    /\ Len(df_customers.rows) = 2
    /\ df_customers.rows[1] = CustomerRow("c1", "rio de janeiro", "RJ")
    /\ df_customers.rows[2] = CustomerRow("c1", "sao paulo", "SP")
    /\ df_enriched.rows[1]["customer_id"] = "c1"
    /\ df_enriched.rows[1]["customer_state"] = "RJ"
    /\ df_enriched.rows[2]["customer_id"] = "c2"
    /\ df_enriched.rows[2]["customer_state"] = NaStr

-----------------------------------------------------------------------------
(* to_datetime_safe applied on its own to a column and a format list *)

MaxLen == 3

DTValues == {RawTs(F1, 1), RawTs(F1, 2), RawTs(F2, 3), RawTs(F5, 4),
             RawTs("other", 5), BadTs, NanTs}

DTFormatLists == {None, <<F2, F1>>, <<F5>>, <<F1, F5>>}

InitDT ==
    /\ ScriptIdle
    /\ disk = [p \in Paths |-> Absent]
    /\ pc = "call"
    /\ arg \in {[series |-> s, formats |-> f] :
                   s \in SeqsUpTo(DTValues, MaxLen) \cup {<<>>}, f \in DTFormatLists}
    /\ ret = <<>>

CallToDatetimeSafe ==
    /\ pc = "call"
    /\ ret' = <<ToDatetimeSafe(arg.series, arg.formats)>>
    /\ pc' = "returned"
    /\ UNCHANGED <<disk, err, dfs, metrics, arg, cachevars>>

NextDT == CallToDatetimeSafe

SpecDT == InitDT /\ [][NextDT]_vars

\* indexes of the listed formats under which at least one cell parses
Hits(series, fs) ==
    {k \in 1..Len(fs) : \E i \in 1..Len(series) : ~IsNaT(ParseFmt(series[i], fs[k]))}

\* C9: to_datetime_safe on a non-empty column returns the whole column parsed
\* under the first listed format that parses at least one cell; a cell that
\* does not parse under that format is missing in the result even when a later
\* format would read it; the generic parse is the result only when no listed
\* format parses any cell.  Under the default list a column holding
\* "YYYY-MM-DD HH:MM:SS" text gets that instant for every such cell and a
\* missing value for every other cell, and nothing is raised.
C9_FirstMatchingFormat ==
    (pc = "returned" /\ Len(arg.series) > 0) =>
        LET fs == FormatsUsed(arg.formats)
            hits == Hits(arg.series, fs)
            out == ret[1]
        IN  /\ err = ""
            /\ Len(out) = Len(arg.series)
            /\ hits # {} =>
                 \A i \in 1..Len(out) :
                    /\ arg.series[i].shape = fs[Min(hits)] => out[i] = DT(arg.series[i].t)
                    /\ arg.series[i].shape # fs[Min(hits)] => out[i] = NaT
            /\ hits = {} => out = ParseColumnGeneric(arg.series)
            /\ (arg.formats = None /\ \E i \in 1..Len(out) : arg.series[i].shape = F1) =>
                 \A i \in 1..Len(out) :
                    IF arg.series[i].shape = F1 THEN out[i] = DT(arg.series[i].t)
                    ELSE out[i] = NaT

\* a default-list call on a column mixing F1 text, F2 text and unreadable text
C9_Witness ==
    /\ pc = "returned"
    /\ arg.formats = None
    /\ \E i, j, k \in 1..Len(arg.series) :
          /\ arg.series[i].shape = F1 /\ ret[1][i] = DT(arg.series[i].t)
          /\ arg.series[j].shape = F2 /\ ret[1][j] = NaT
          /\ arg.series[k].shape = "bad" /\ ret[1][k] = NaT

-----------------------------------------------------------------------------
(* ensure_col applied on its own, twice, with the same arguments.  The      *)
(* function assigns into the table it is given and returns that table.      *)

MaxEnsRows == 2

EnsCols == {"order_id", "payment_installments"}

\* the defaults load_data passes for these columns
EnsDefault(c) ==
    IF c = "payment_installments" THEN Num(0)
    ELSE IF c = "customer_city" THEN NaStr
    ELSE ""

EnsRows(cs) ==
    {[c \in cs |-> IF c = "payment_installments" THEN n ELSE s] :
        s \in {"", "A"}, n \in {Num(0), Num(1)}}

EnsTables ==
    {EmptyDF} \cup
    UNION {{[cols |-> cs, rows |-> rs] : rs \in SeqsUpTo(EnsRows(cs), MaxEnsRows) \cup {<<>>}} :
              cs \in (SUBSET EnsCols) \ {{}}}

InitEnsure ==
    /\ ScriptIdle
    /\ disk = [p \in Paths |-> Absent]
    /\ pc = "call"
    /\ arg \in {[df |-> d, col |-> c, default |-> EnsDefault(c)] :
                   d \in EnsTables, c \in EnsCols \cup {"customer_city"}}
    /\ ret = <<>>

CallEnsureCol ==
    /\ pc = "call"
    /\ Len(ret) < 2
    /\ ret' = Append(ret, EnsureCol(IF ret = <<>> THEN arg.df ELSE ret[Len(ret)],
                                    arg.col, arg.default))
    /\ pc' = IF Len(ret) = 1 THEN "returned" ELSE "call"
    /\ UNCHANGED <<disk, err, dfs, metrics, arg, cachevars>>

NextEnsure == CallEnsureCol

SpecEnsure == InitEnsure /\ [][NextEnsure]_vars

\* C10: after ensure_col the table has the column; an absent column holds the
\* default in every row; a present column keeps its values; the other columns
\* and the row count are unchanged; a second call changes nothing.
C10_EnsureColIdempotent ==
    Len(ret) >= 1 =>
        LET before == arg.df
            once == ret[1]
        IN  /\ arg.col \in once.cols
            /\ once.cols = before.cols \cup {arg.col}
            /\ Len(once.rows) = Len(before.rows)
            /\ \A i \in 1..Len(once.rows) :
                  /\ \A c \in before.cols : once.rows[i][c] = before.rows[i][c]
                  /\ arg.col \notin before.cols => once.rows[i][arg.col] = arg.default
            /\ Len(ret) = 2 => ret[2] = once

\* both cases after the second call: the column was absent and filled, or was
\* present holding a value other than the default
C10_Witness ==
    /\ pc = "returned"
    /\ Len(ret) = 2
    /\ Len(arg.df.rows) = 2
    /\ arg.col = "order_id"
    /\ "order_id" \in arg.df.cols
    /\ arg.df.rows[1]["order_id"] = "A"
    /\ ret[2].rows[1]["order_id"] = "A"

====
